---- MODULE Spec2Model ----
(***************************************************************************)
(* A model of the `volume` crate: the region descriptor (BoundingBox) and  *)
(* its iterator, the index conversion (VolumeIdx), the heap and stack      *)
(* backends and the access contract (get / get_mut / swap / iter / insert).*)
(***************************************************************************)
EXTENDS Integers, Sequences, FiniteSets, TLC

\* ------------------------------------------------------------------------
\* Bounds of the model
\* ------------------------------------------------------------------------
\* Coordinates of box corners and of indices range over -1..MaxCoord.
MaxCoord == 1
\* next() may be called this many more times after a None was returned.
ExtraNextCalls == 2
\* Operations made on a volume after its construction.
MaxOps == 1
\* The extent of a heap volume under test is at most MaxSpan on every axis.
MaxSpan == 2
\* The extents X, Y, Z of the StackVolume<X, Y, Z, T> under test.
StackX == 2
StackY == 1
StackZ == 2

\* Element values (those of the tests).
FillItem == 10
OtherItem == 20
Items == {FillItem, OtherItem}

MinCoord == 0 - 1
Coord == MinCoord..MaxCoord
Pos == Coord \X Coord \X Coord
Axes == 1..3

\* ------------------------------------------------------------------------
\* Option<T>
\* ------------------------------------------------------------------------
None == <<>>
Some(v) == <<v>>
IsSome(o) == Len(o) = 1
Unwrap(o) == o[1]

\* ------------------------------------------------------------------------
\* util.rs
\* ------------------------------------------------------------------------
\* The values of the integer type T, among the values the model draws (all
\* of them below 2^31): an 8 or 16 bit type has both its limits, usize
\* (64 bit) only its lower one, and i64 and i128 hold every value drawn.
InDomain(T, n) ==
    CASE T = "u8" -> 0 <= n /\ n <= 2^8 - 1
      [] T = "i8" -> 0 - 2^7 <= n /\ n <= 2^7 - 1
      [] T = "u16" -> 0 <= n /\ n <= 2^16 - 1
      [] T = "i16" -> 0 - 2^15 <= n /\ n <= 2^15 - 1
      [] T = "usize" -> 0 <= n
      [] OTHER -> TRUE

\* <T as NumCast>::from(n): Some(n) when n is in the domain of T, None
\* otherwise.
NumCast_from(T, n) ==
    IF InDomain(T, n) THEN Some(n) ELSE None

\* n as T: for an 8 or 16 bit type T the low bits, reinterpreted
as_cast(T, n) ==
    LET w == IF T \in {"u8", "i8"} THEN 2^8 ELSE 2^16
        low == n % w
    IN IF T \notin {"u8", "i8", "u16", "i16"} THEN n
       ELSE IF T \in {"i8", "i16"} /\ low >= w \div 2 THEN low - w ELSE low

\* a plausible slip: the components are converted with `as`
cast_ivec3_as(T, arr) ==
    Some(<<as_cast(T, arr[1]), as_cast(T, arr[2]), as_cast(T, arr[3])>>)

cast_ivec3(T, arr) ==
    IF \A i \in Axes : IsSome(NumCast_from(T, arr[i]))
    THEN Some(<<Unwrap(NumCast_from(T, arr[1])),
                Unwrap(NumCast_from(T, arr[2])),
                Unwrap(NumCast_from(T, arr[3]))>>)
    ELSE None

sum_ivec3(lhs, rhs) == <<lhs[1] + rhs[1], lhs[2] + rhs[2], lhs[3] + rhs[3]>>

sub_ivec3(lhs, rhs) == <<lhs[1] - rhs[1], lhs[2] - rhs[2], lhs[3] - rhs[3]>>

\* vec![item; len].into_boxed_slice()
boxed_slice(item, len) == [i \in 1..len |-> item]

\* ------------------------------------------------------------------------
\* Indices (VolumeIdx)
\* ------------------------------------------------------------------------
\* An index value of some integer triplet type [N; 3].  `arr` holds the
\* components as i64 values; `over` is TRUE for an index of a wider unsigned
\* type one of whose components lies above i64::MAX (arr then only holds the
\* wrapped low bits and no checked cast to i64 succeeds).
Index(p) == [arr |-> p, over |-> FALSE]
WideIndex(p) == [arr |-> p, over |-> TRUE]
GenIdx == {Index(p) : p \in Pos} \cup {WideIndex(p) : p \in {<<0, 0, 0>>, <<MinCoord, 0, MaxCoord>>}}

\* impl VolumeIdx for [N; 3] :: unpack::<T>()
VolumeIdx_unpack(T, idx) ==
    IF idx.over THEN None ELSE cast_ivec3(T, idx.arr)

\* VolumeIdx::array::<T>() : the componentwise checked cast, as an array
VolumeIdx_array(T, idx) ==
    IF idx.over THEN None ELSE cast_ivec3(T, idx.arr)

\* ------------------------------------------------------------------------
\* types.rs : BoundingBox
\* ------------------------------------------------------------------------
min(a, b) == IF a <= b THEN a ELSE b
max(a, b) == IF a >= b THEN a ELSE b

\* a plausible slip: the corners are stored as given
BoundingBox_new_unsorted(pos1, pos2) == [min |-> pos1, max |-> pos2]

BoundingBox_new(pos1, pos2) ==
    [min |-> Unwrap(cast_ivec3("i64",
                <<min(pos1[1], pos2[1]), min(pos1[2], pos2[2]), min(pos1[3], pos2[3])>>)),
     max |-> Unwrap(cast_ivec3("i64",
                <<max(pos1[1], pos2[1]), max(pos1[2], pos2[2]), max(pos1[3], pos2[3])>>))]

\* new_origin panics (no box is returned) when a dimension is negative
BoundingBox_new_origin(dimensions) ==
    IF dimensions[1] >= 0 /\ dimensions[2] >= 0 /\ dimensions[3] >= 0
    THEN Some(BoundingBox_new(<<0, 0, 0>>, dimensions))
    ELSE None

abs(n) == IF n < 0 THEN -n ELSE n
x_span(b) == abs(b.max[1] - b.min[1])
y_span(b) == abs(b.max[2] - b.min[2])
z_span(b) == abs(b.max[3] - b.min[3])
dimensions(b) == <<x_span(b), y_span(b), z_span(b)>>

capacity(b) ==
    LET d == sub_ivec3(b.max, b.min) IN d[1] * d[2] * d[3]

\* (start..end).contains(&x)
Range_contains(start, end, x) == start <= x /\ x < end

\* a plausible slip: the upper corner is taken as inclusive
BoundingBox_contains_inclusive(b, idx) ==
    LET t == VolumeIdx_unpack("i64", idx) IN
    IF ~IsSome(t) THEN FALSE
    ELSE /\ b.min[1] <= Unwrap(t)[1] /\ Unwrap(t)[1] <= b.max[1]
         /\ b.min[2] <= Unwrap(t)[2] /\ Unwrap(t)[2] <= b.max[2]
         /\ b.min[3] <= Unwrap(t)[3] /\ Unwrap(t)[3] <= b.max[3]

\* a plausible slip: the z component is tested against the y range
BoundingBox_contains_copy_paste(b, idx) ==
    LET t == VolumeIdx_unpack("i64", idx) IN
    IF ~IsSome(t) THEN FALSE
    ELSE /\ Range_contains(b.min[1], b.max[1], Unwrap(t)[1])
         /\ Range_contains(b.min[2], b.max[2], Unwrap(t)[2])
         /\ Range_contains(b.min[2], b.max[2], Unwrap(t)[3])

BoundingBox_contains(b, idx) ==
    LET t == VolumeIdx_unpack("i64", idx) IN
    IF ~IsSome(t) THEN FALSE
    ELSE /\ Range_contains(b.min[1], b.max[1], Unwrap(t)[1])
         /\ Range_contains(b.min[2], b.max[2], Unwrap(t)[2])
         /\ Range_contains(b.min[3], b.max[3], Unwrap(t)[3])

BoundingBox_overlaps(a, rhs) ==
    /\ a.min[1] < rhs.max[1] /\ a.max[1] > rhs.min[1]
    /\ a.min[2] < rhs.max[2] /\ a.max[2] > rhs.min[2]
    /\ a.min[3] < rhs.max[3] /\ a.max[3] > rhs.min[3]

\* a plausible slip: min and max are exchanged, giving the hull of the boxes
BoundingBox_intersection_hull(a, rhs) ==
    IF ~BoundingBox_overlaps(a, rhs) THEN None
    ELSE Some(BoundingBox_new(
            <<min(a.min[1], rhs.min[1]), min(a.min[2], rhs.min[2]), min(a.min[3], rhs.min[3])>>,
            <<max(a.max[1], rhs.max[1]), max(a.max[2], rhs.max[2]), max(a.max[3], rhs.max[3])>>))

BoundingBox_intersection(a, rhs) ==
    IF ~BoundingBox_overlaps(a, rhs) THEN None
    ELSE Some(BoundingBox_new(
            <<max(a.min[1], rhs.min[1]), max(a.min[2], rhs.min[2]), max(a.min[3], rhs.min[3])>>,
            <<min(a.max[1], rhs.max[1]), min(a.max[2], rhs.max[2]), min(a.max[3], rhs.max[3])>>))

\* impl IntoIterator for BoundingBox
BoundingBox_into_iter(b) == [current |-> b.min, bounding_box |-> b]

\* BoundingBoxIterator::next : the returned item and the iterator afterwards
BoundingBoxIterator_next(it) ==
    LET bb0 == it.bounding_box
        c == it.current
        out == IF c[3] >= bb0.max[3] THEN None ELSE Some(c)
        x1 == c[1] + 1
        wrapx == x1 >= bb0.max[1]
        y1 == c[2] + 1
        wrapy == wrapx /\ y1 >= bb0.max[2]
        cur == IF ~wrapx THEN <<x1, c[2], c[3]>>
               ELSE IF ~wrapy THEN <<bb0.min[1], y1, c[3]>>
               ELSE <<bb0.min[1], bb0.min[2], c[3] + 1>>
    IN [out |-> out, it |-> [current |-> cur, bounding_box |-> bb0]]

\* All boxes the constructor can build from corners in the modelled range.
Boxes == {BoundingBox_new(c1, c2) : c1 \in Pos, c2 \in Pos}

\* Boxes with one corner on the main diagonal (right-hand operands of
\* intersection).
DiagonalBoxes == {BoundingBox_new(c1, <<m, m, m>>) : c1 \in Pos, m \in Coord}

\* Boxes with corners one short of the upper end of the range (right-hand
\* operands of overlaps).
InnerBoxes == {b \in Boxes : \A i \in Axes : b.max[i] < MaxCoord}

\* ------------------------------------------------------------------------
\* spaces.rs, impls.rs : HeapVolume
\* ------------------------------------------------------------------------
Localspace(idx) == [space |-> "Localspace", idx |-> idx]
Worldspace(idx) == [space |-> "Worldspace", idx |-> idx]

\* <[T]>::get(i) on a slice, i a usize
slice_get(s, i) == IF i < Len(s) THEN Some(s[i + 1]) ELSE None

\* HeapVolume::new(item, bounds)
HeapVolume_new(item, bounds) ==
    LET d == Unwrap(cast_ivec3("usize", dimensions(bounds))) IN
    [kind |-> "HeapVolume",
     inner |-> boxed_slice(boxed_slice(boxed_slice(item, d[3]), d[2]), d[1]),
     bounds |-> bounds]

\* impl From<[[[T; Z]; Y]; X]> for HeapVolume<T>
HeapVolume_from(array, X, Y, Z) ==
    [kind |-> "HeapVolume",
     inner |-> array,
     bounds |-> BoundingBox_new(<<0, 0, 0>>, <<X, Y, Z>>)]

\* a plausible slip: the world position is not moved to the origin
HeapVolume_to_ls_unshifted(this, sidx) ==
    VolumeIdx_array("usize", sidx.idx)

HeapVolume_to_ls(this, sidx) ==
    IF sidx.space = "Worldspace"
    THEN LET pos == VolumeIdx_array("i64", sidx.idx) IN
         IF ~IsSome(pos) THEN None
         ELSE cast_ivec3("usize", sub_ivec3(Unwrap(pos), this.bounds.min))
    ELSE VolumeIdx_array("usize", sidx.idx)

HeapVolume_ls_get(this, idx) ==
    LET a == slice_get(this.inner, idx[1]) IN
    IF ~IsSome(a) THEN None
    ELSE LET b == slice_get(Unwrap(a), idx[2]) IN
         IF ~IsSome(b) THEN None
         ELSE slice_get(Unwrap(b), idx[3])

\* ls_get_mut: the slot, named by its place in the storage
HeapVolume_ls_get_mut(this, idx) ==
    IF IsSome(HeapVolume_ls_get(this, idx)) THEN Some(idx) ELSE None

\* impl VolumeAccess<Space<Idx>> for HeapVolume<T>
HeapVolume_access_space(this, sidx) ==
    LET l == HeapVolume_to_ls(this, sidx) IN
    IF ~IsSome(l) THEN None ELSE HeapVolume_ls_get(this, Unwrap(l))

\* impl VolumeMutAccess<Space<Idx>> for HeapVolume<T>
HeapVolume_access_mut_space(this, sidx) ==
    LET l == HeapVolume_to_ls(this, sidx) IN
    IF ~IsSome(l) THEN None ELSE HeapVolume_ls_get_mut(this, Unwrap(l))

\* std::mem::replace(slot, item) : the old value and the storage afterwards
mem_replace(this, slot, item) ==
    [ret |-> Some(this.inner[slot[1] + 1][slot[2] + 1][slot[3] + 1]),
     vol |-> [this EXCEPT !.inner[slot[1] + 1][slot[2] + 1][slot[3] + 1] = item]]

\* impl VolumeSwapper<Space<Idx>> for HeapVolume<T>
HeapVolume_swap_space(this, sidx, item) ==
    LET slot == HeapVolume_access_mut_space(this, sidx) IN
    IF ~IsSome(slot) THEN [ret |-> None, vol |-> this]
    ELSE mem_replace(this, Unwrap(slot), item)

\* impl VolumeAccess<Idx> / VolumeMutAccess<Idx> / VolumeSwapper<Idx> for HeapVolume<T>
HeapVolume_access(this, idx) == HeapVolume_access_space(this, Localspace(idx))
HeapVolume_access_mut(this, idx) == HeapVolume_access_mut_space(this, Localspace(idx))
HeapVolume_swap(this, idx, item) == HeapVolume_swap_space(this, Localspace(idx), item)

\* HeapVolume::ws_get / ws_get_mut / ws_swap
HeapVolume_ws_get(this, idx) == HeapVolume_access_space(this, Worldspace(idx))
HeapVolume_ws_get_mut(this, idx) == HeapVolume_access_mut_space(this, Worldspace(idx))
HeapVolume_ws_swap(this, idx, item) == HeapVolume_swap_space(this, Worldspace(idx), item)

\* ------------------------------------------------------------------------
\* impls.rs : StackVolume<X, Y, Z, T>
\* ------------------------------------------------------------------------
StackVolume_filled(item) ==
    [kind |-> "StackVolume",
     inner |-> [x \in 1..StackX |-> [y \in 1..StackY |-> [z \in 1..StackZ |-> item]]]]

\* a plausible slip: the y and z components index the wrong levels
StackVolume_access_transposed(this, idx) ==
    LET l == VolumeIdx_array("usize", idx) IN
    IF ~IsSome(l) THEN None
    ELSE LET a == slice_get(this.inner, Unwrap(l)[1]) IN
         IF ~IsSome(a) THEN None
         ELSE LET b == slice_get(Unwrap(a), Unwrap(l)[3]) IN
              IF ~IsSome(b) THEN None
              ELSE slice_get(Unwrap(b), Unwrap(l)[2])

StackVolume_access(this, idx) ==
    LET l == VolumeIdx_array("usize", idx) IN
    IF ~IsSome(l) THEN None
    ELSE LET a == slice_get(this.inner, Unwrap(l)[1]) IN
         IF ~IsSome(a) THEN None
         ELSE LET b == slice_get(Unwrap(a), Unwrap(l)[2]) IN
              IF ~IsSome(b) THEN None
              ELSE slice_get(Unwrap(b), Unwrap(l)[3])

StackVolume_access_mut(this, idx) ==
    IF IsSome(StackVolume_access(this, idx)) THEN VolumeIdx_array("usize", idx) ELSE None

StackVolume_swap(this, idx, item) ==
    LET slot == StackVolume_access_mut(this, idx) IN
    IF ~IsSome(slot) THEN [ret |-> None, vol |-> this]
    ELSE mem_replace(this, Unwrap(slot), item)

\* ------------------------------------------------------------------------
\* traits.rs : Volume, dispatching to the backend's implementation
\* ------------------------------------------------------------------------
bounding_box(v) ==
    IF v.kind = "HeapVolume" THEN v.bounds
    ELSE BoundingBox_new(<<0, 0, 0>>, <<StackX, StackY, StackZ>>)

Volume_get(v, idx) ==
    IF v.kind = "HeapVolume" THEN HeapVolume_access(v, idx) ELSE StackVolume_access(v, idx)

Volume_get_mut(v, idx) ==
    IF v.kind = "HeapVolume" THEN HeapVolume_access_mut(v, idx) ELSE StackVolume_access_mut(v, idx)

Volume_swap(v, idx, item) ==
    IF v.kind = "HeapVolume" THEN HeapVolume_swap(v, idx, item) ELSE StackVolume_swap(v, idx, item)

Volume_contains(v, idx) == BoundingBox_contains(bounding_box(v), idx)

Volume_iter_indices(v) == BoundingBox_into_iter(bounding_box(v))

\* VolumeIterator::next : the returned item and the index iterator afterwards
VolumeIterator_next(v, it) ==
    LET n == BoundingBoxIterator_next(it) IN
    [out |-> IF ~IsSome(n.out) THEN None ELSE Volume_get(v, Index(Unwrap(n.out))),
     it |-> n.it]

\* The items a VolumeIterator yields: a consumer stops at the first None.
RECURSIVE IterItems(_, _)
IterItems(v, it) ==
    LET n == VolumeIterator_next(v, it) IN
    IF ~IsSome(n.out) THEN <<>> ELSE <<Unwrap(n.out)>> \o IterItems(v, n.it)

\* Volume::iter
Volume_iter(v) == Volume_iter_indices(v)

\* a.zip(b).any(|(a, b)| a != b)
zip_any_ne(a, b) == \E k \in 1..min(Len(a), Len(b)) : a[k] # b[k]

\* impl PartialEq for HeapVolume<T>
HeapVolume_eq(this, that) ==
    /\ bounding_box(this) = bounding_box(that)
    /\ ~zip_any_ne(IterItems(this, Volume_iter(this)), IterItems(that, Volume_iter(that)))

\* The region with minimum corner <<m, m, m>> and extents d.
RegionAt(m, d) == BoundingBox_new(<<m, m, m>>, <<m + d[1], m + d[2], m + d[3]>>)

\* Regions of the heap volumes under test: every shape up to MaxSpan, anchored
\* at the origin and below it.
Shapes == (0..MaxSpan) \X (0..MaxSpan) \X (0..MaxSpan)
VolRegions == {RegionAt(m, d) : m \in {MinCoord, 0}, d \in Shapes}

\* ------------------------------------------------------------------------
\* Volume::insert and Volume::insert_anyways
\* ------------------------------------------------------------------------
\* the positions other.iter_indices() yields before its first None
RECURSIVE IterPositions(_)
IterPositions(it) ==
    LET n == BoundingBoxIterator_next(it) IN
    IF ~IsSome(n.out) THEN <<>>
    ELSE <<Unwrap(n.out)>> \o IterPositions(n.it)

\* the copy loop: for every position p of other, in iteration order, the
\* element other.get(p) is written to self at at + p; a position that one of
\* the two volumes does not accept is skipped
RECURSIVE CopyLoop(_, _, _, _)
CopyLoop(self, at, source, positions) ==
    IF positions = <<>> THEN self
    ELSE LET p == Head(positions)
             item == Volume_get(source, Index(p))
             next == IF ~IsSome(item) THEN self
                     ELSE Volume_swap(self, Index(sum_ivec3(at, p)), Unwrap(item)).vol
         IN CopyLoop(next, at, source, Tail(positions))

\* insert(at, other): both corners of the destination are validated first
Volume_insert(self, at, source) ==
    LET obb == bounding_box(source) IN
    IF ~(/\ Volume_contains(self, Index(sum_ivec3(at, obb.min)))
         /\ Volume_contains(self, Index(sum_ivec3(at, obb.max))))
    THEN [ret |-> "VolumeEscapesBounds", vol |-> self]
    ELSE [ret |-> "Ok",
          vol |-> CopyLoop(self, at, source, IterPositions(Volume_iter_indices(source)))]

\* insert_anyways(at, other): the copy loop alone
Volume_insert_anyways(self, at, source) ==
    [ret |-> "Ok",
     vol |-> CopyLoop(self, at, source, IterPositions(Volume_iter_indices(source)))]

\* Regions of the inserted heap volumes: at most one position on an axis,
\* anchored at the origin and above it.
SourceRegions == {RegionAt(m, d) : m \in {0, 1}, d \in (0..1) \X (0..1) \X (0..1)}

\* A [[[T; Z]; Y]; X] literal with pairwise distinct elements.
LiteralArray ==
    [x \in 1..StackX |-> [y \in 1..StackY |-> [z \in 1..StackZ |->
        OtherItem + x + StackX * y + StackX * StackY * z]]]

\* ------------------------------------------------------------------------
\* lib.rs : BoundingBox { pos1, pos2 }, trait Volume { set, get }, Subvolume
\* ------------------------------------------------------------------------
lib_BoundingBox(pos1, pos2) == [pos1 |-> pos1, pos2 |-> pos2]

lib_BoundingBox_min(b) ==
    <<min(b.pos1[1], b.pos2[1]), min(b.pos1[2], b.pos2[2]), min(b.pos1[3], b.pos2[3])>>

lib_BoundingBox_max(b) ==
    <<max(b.pos1[1], b.pos2[1]), max(b.pos1[2], b.pos2[2]), max(b.pos1[3], b.pos2[3])>>

lib_BoundingBox_contains(b, idx) ==
    LET mn == lib_BoundingBox_min(b)
        mx == lib_BoundingBox_max(b)
    IN /\ Range_contains(mn[1], mx[1], idx[1])
       /\ Range_contains(mn[2], mx[2], idx[2])
       /\ Range_contains(mn[3], mx[3], idx[3])

\* the positions of a box of lib.rs
lib_Positions(b) ==
    LET mn == lib_BoundingBox_min(b)
        mx == lib_BoundingBox_max(b)
    IN (mn[1]..(mx[1] - 1)) \X (mn[2]..(mx[2] - 1)) \X (mn[3]..(mx[3] - 1))

\* A backend: an implementor of trait Volume with Input = Item and
\* Output = Option<Item>, one slot per position of its region.
Backend_new(item, bounds) ==
    [kind |-> "Backend", bounds |-> bounds, slots |-> [p \in lib_Positions(bounds) |-> item]]

Backend_bounding_box(v) == v.bounds

\* Volume::contains, the default method
lib_Volume_contains(v, idx) == lib_BoundingBox_contains(Backend_bounding_box(v), idx)

Backend_get(v, idx) ==
    IF lib_Volume_contains(v, idx) THEN Some(v.slots[idx]) ELSE None

\* set: whether the item was stored, and the backend afterwards
Backend_set(v, idx, item) ==
    IF lib_Volume_contains(v, idx)
    THEN [ret |-> TRUE, vol |-> [v EXCEPT !.slots[idx] = item]]
    ELSE [ret |-> FALSE, vol |-> v]

OversizedBounds(provided, expected) ==
    [tag |-> "Err", provided |-> provided, expected |-> expected]

\* Subvolume::new : Ok(Self { bounds, vol }) or Err(OversizedBounds)
Subvolume_new(v, bounds) ==
    IF lib_Volume_contains(v, lib_BoundingBox_min(bounds))
       /\ lib_Volume_contains(v, lib_BoundingBox_max(bounds))
    THEN [tag |-> "Ok", bounds |-> bounds]
    ELSE OversizedBounds(bounds, Some(Backend_bounding_box(v)))

\* Subvolume::resize : self is consumed, the backend stays borrowed
Subvolume_resize(self, v, bounds) ==
    IF lib_Volume_contains(v, lib_BoundingBox_max(bounds))
       /\ lib_Volume_contains(v, lib_BoundingBox_min(bounds))
    THEN [tag |-> "Ok", bounds |-> bounds]
    ELSE OversizedBounds(bounds, Some(Backend_bounding_box(v)))

\* a plausible slip: the index is forwarded without the test against bounds
Subvolume_set_unchecked(self, v, idx, item) == Backend_set(v, idx, item)

\* impl Volume for Subvolume : set
Subvolume_set(self, v, idx, item) ==
    IF lib_BoundingBox_contains(self.bounds, idx)
    THEN Backend_set(v, idx, item)
    ELSE [ret |-> FALSE, vol |-> v]

\* impl Volume for Subvolume : get
Subvolume_get(self, v, idx) ==
    IF lib_BoundingBox_contains(self.bounds, idx) THEN Some(Backend_get(v, idx)) ELSE None

Subvolume_bounding_box(self) == self.bounds

\* Regions of the backends a Subvolume borrows: cubes at the origin and below.
BackendRegions ==
    {lib_BoundingBox(<<m, m, m>>, <<m + s, m + s, m + s>>) : m \in {MinCoord, 0}, s \in 0..MaxSpan}

\* Restricting regions: pos1 anywhere, pos2 on the main diagonal (the
\* components of pos1 lie below and above those of pos2).
SubBounds == {lib_BoundingBox(c, <<m, m, m>>) : c \in Pos, m \in Coord}

\* The component values and the target types of the conversions drawn:
\* around the limits of the 8 and 16 bit types.
CastValues ==
    {0 - 2^15 - 1, 0 - 2^15, 0 - 2^7 - 1, 0 - 2^7, 0 - 2, 0, 60,
     2^7 - 1, 2^7, 2^8 - 1, 2^8, 400, 2^15 - 1, 2^15, 2^16 - 1, 2^16}
CastTypes == {"u8", "i8", "u16", "i16", "usize", "i64"}

\* ------------------------------------------------------------------------
\* State
\* ------------------------------------------------------------------------
VARIABLES
    call,   \* the last call made, with its arguments
    ret,    \* None while the call is pending, Some(result) once it returned
    bbit,   \* a BoundingBoxIterator: [current, bounding_box]
    outs,   \* what the successive next() calls on the iterator returned
    vol,    \* the volume under test
    other,  \* the volume that is inserted into vol
    prev,   \* vol as it was before the last call
    nops,   \* the number of calls made on vol
    view    \* the Subvolume borrowing vol: None, or Some of its bounds

vars == <<call, ret, bbit, outs, vol, other, prev, nops, view>>
boxVars == <<call, ret>>
iterVars == <<bbit, outs>>
volVars == <<vol, other, prev, nops>>
subVars == <<view>>

\* values of the variables a specification does not use
IdleBox == call = [op |-> "none"] /\ ret = None
IdleIter == bbit = BoundingBox_into_iter(BoundingBox_new(<<0, 0, 0>>, <<0, 0, 0>>)) /\ outs = <<>>
EmptyVolume == HeapVolume_new(FillItem, BoundingBox_new(<<0, 0, 0>>, <<0, 0, 0>>))
IdleVol == vol = EmptyVolume /\ other = EmptyVolume /\ prev = EmptyVolume /\ nops = 0
IdleSub == view = None

\* ------------------------------------------------------------------------
\* SpecBox : the functions of BoundingBox, each applied to drawn arguments
\* ------------------------------------------------------------------------
InitBox ==
    /\ \/ \E c1 \in Pos, c2 \in Pos : call = [op |-> "new", pos1 |-> c1, pos2 |-> c2]
       \/ \E d \in Pos : call = [op |-> "new_origin", dimensions |-> d]
       \/ \E b \in Boxes, i \in GenIdx : call = [op |-> "contains", self |-> b, idx |-> i]
       \/ \E b \in Boxes, r \in DiagonalBoxes : call = [op |-> "intersection", self |-> b, rhs |-> r]
       \/ \E b \in Boxes, r \in InnerBoxes : call = [op |-> "overlaps", self |-> b, rhs |-> r]
    /\ ret = None
    /\ IdleIter
    /\ IdleSub
    /\ IdleVol

CallNew ==
    /\ call.op = "new" /\ ret = None
    /\ ret' = Some(BoundingBox_new(call.pos1, call.pos2))
    /\ UNCHANGED <<call, iterVars, volVars, subVars>>

CallNewOrigin ==
    /\ call.op = "new_origin" /\ ret = None
    /\ ret' = Some(BoundingBox_new_origin(call.dimensions))
    /\ UNCHANGED <<call, iterVars, volVars, subVars>>

CallContains ==
    /\ call.op = "contains" /\ ret = None
    /\ ret' = Some(BoundingBox_contains(call.self, call.idx))
    /\ UNCHANGED <<call, iterVars, volVars, subVars>>

CallIntersection ==
    /\ call.op = "intersection" /\ ret = None
    /\ ret' = Some(BoundingBox_intersection(call.self, call.rhs))
    /\ UNCHANGED <<call, iterVars, volVars, subVars>>

CallOverlaps ==
    /\ call.op = "overlaps" /\ ret = None
    /\ ret' = Some(BoundingBox_overlaps(call.self, call.rhs))
    /\ UNCHANGED <<call, iterVars, volVars, subVars>>

NextBox == CallNew \/ CallNewOrigin \/ CallContains \/ CallIntersection \/ CallOverlaps

SpecBox == InitBox /\ [][NextBox]_vars

Returned(op) == call.op = op /\ ret # None

\* ------------------------------------------------------------------------
\* SpecIter : iterating a BoundingBox
\* ------------------------------------------------------------------------
NoneCount(s) == Cardinality({k \in 1..Len(s) : s[k] = None})

InitIter ==
    /\ \E b \in Boxes : bbit = BoundingBox_into_iter(b)
    /\ outs = <<>>
    /\ IdleBox
    /\ IdleVol
    /\ IdleSub

\* idx_iterator.next()
IterNext ==
    /\ NoneCount(outs) <= ExtraNextCalls
    /\ bbit' = BoundingBoxIterator_next(bbit).it
    /\ outs' = Append(outs, BoundingBoxIterator_next(bbit).out)
    /\ UNCHANGED <<boxVars, volVars, subVars>>

\* the same box is iterated again from the start
IterRestart ==
    /\ outs # <<>>
    /\ bbit' = BoundingBox_into_iter(bbit.bounding_box)
    /\ outs' = <<>>
    /\ UNCHANGED <<boxVars, volVars, subVars>>

NextIter == IterNext \/ IterRestart

SpecIter == InitIter /\ [][NextIter]_vars

\* what a loop over the iterator sees: the items before the first None
RECURSIVE Yielded(_)
Yielded(s) ==
    IF s = <<>> \/ Head(s) = None THEN <<>>
    ELSE <<Unwrap(Head(s))>> \o Yielded(Tail(s))

Exhausted(s) == NoneCount(s) > 0

\* the k-th (k = 1, 2, ...) position of a box with no empty axis, X varying
\* fastest, then Y, then Z
NthPosition(b, k) ==
    LET sx == b.max[1] - b.min[1]
        sy == b.max[2] - b.min[2]
    IN <<b.min[1] + ((k - 1) % sx),
         b.min[2] + (((k - 1) \div sx) % sy),
         b.min[3] + ((k - 1) \div (sx * sy))>>

Degenerate(b) == \E i \in Axes : b.max[i] = b.min[i]

\* ------------------------------------------------------------------------
\* SpecVol : get and swap on a HeapVolume or a StackVolume
\* ------------------------------------------------------------------------
InitVol ==
    /\ \/ \E r \in VolRegions : vol = HeapVolume_new(FillItem, r)
       \/ vol = StackVolume_filled(FillItem)
    /\ other = EmptyVolume
    /\ prev = vol
    /\ nops = 0
    /\ IdleBox
    /\ IdleIter
    /\ IdleSub

\* vol.get(idx)
Get(idx) ==
    /\ nops < MaxOps
    /\ call' = [op |-> "get", idx |-> idx]
    /\ ret' = Some(Volume_get(vol, idx))
    /\ prev' = vol
    /\ nops' = nops + 1
    /\ UNCHANGED <<vol, other, iterVars, subVars>>

\* vol.swap(idx, item); `before` is what vol.get(idx) returns just before
Swap(idx, item) ==
    /\ nops < MaxOps
    /\ call' = [op |-> "swap", idx |-> idx, item |-> item, before |-> Volume_get(vol, idx)]
    /\ LET r == Volume_swap(vol, idx, item) IN
        ret' = Some(r.ret) /\ vol' = r.vol
    /\ prev' = vol
    /\ nops' = nops + 1
    /\ UNCHANGED <<other, iterVars, subVars>>

NextVol ==
    \/ \E p \in Pos : Get(Index(p))
    \/ \E p \in Pos, item \in Items : Swap(Index(p), item)

SpecVol == InitVol /\ [][NextVol]_vars

\* ------------------------------------------------------------------------
\* SpecVolIter : vol.iter(), on a volume as built or after swaps
\* ------------------------------------------------------------------------
InitVolIter == InitVol

\* vol.iter() : borrows vol until the iteration is given up
IterStart ==
    /\ call.op # "iter"
    /\ call' = [op |-> "iter"]
    /\ ret' = None
    /\ bbit' = Volume_iter_indices(vol)
    /\ outs' = <<>>
    /\ UNCHANGED <<volVars, subVars>>

\* vol_iterator.next()
VolIterNext ==
    /\ call.op = "iter"
    /\ NoneCount(outs) = 0
    /\ bbit' = VolumeIterator_next(vol, bbit).it
    /\ outs' = Append(outs, VolumeIterator_next(vol, bbit).out)
    /\ UNCHANGED <<boxVars, volVars, subVars>>

NextVolIter ==
    \/ \E p \in Pos, item \in Items : call.op # "iter" /\ Swap(Index(p), item)
    \/ IterStart
    \/ VolIterNext

SpecVolIter == InitVolIter /\ [][NextVolIter]_vars

\* ------------------------------------------------------------------------
\* SpecIns : one volume inserted into another
\* ------------------------------------------------------------------------
InitIns ==
    /\ \/ \E r \in VolRegions : vol = HeapVolume_new(FillItem, r)
       \/ vol = StackVolume_filled(FillItem)
    /\ \/ \E r \in SourceRegions : other = HeapVolume_new(OtherItem, r)
       \/ other = HeapVolume_from(LiteralArray, StackX, StackY, StackZ)
    /\ \E at \in Pos, op \in {"insert", "insert_anyways"} : call = [op |-> op, at |-> at]
    /\ ret = None
    /\ prev = vol
    /\ nops = 0
    /\ IdleIter
    /\ IdleSub

\* vol.insert(at, &other)
Insert ==
    /\ call.op = "insert" /\ ret = None
    /\ LET r == Volume_insert(vol, call.at, other) IN
        ret' = Some(r.ret) /\ vol' = r.vol
    /\ prev' = vol
    /\ nops' = nops + 1
    /\ UNCHANGED <<call, other, iterVars, subVars>>

\* vol.insert_anyways(at, &other)
InsertAnyways ==
    /\ call.op = "insert_anyways" /\ ret = None
    /\ LET r == Volume_insert_anyways(vol, call.at, other) IN
        ret' = Some(r.ret) /\ vol' = r.vol
    /\ prev' = vol
    /\ nops' = nops + 1
    /\ UNCHANGED <<call, other, iterVars, subVars>>

NextIns == Insert \/ InsertAnyways

SpecIns == InitIns /\ [][NextIns]_vars

\* ------------------------------------------------------------------------
\* SpecSub : a Subvolume made over a backend, resized, then accessed
\* ------------------------------------------------------------------------
InitSub ==
    /\ \E r \in BackendRegions : vol = Backend_new(FillItem, r)
    /\ other = EmptyVolume
    /\ prev = vol
    /\ nops = 0
    /\ view = None
    /\ IdleBox
    /\ IdleIter

\* Subvolume::new(&mut vol, bounds)
SubNew(bounds) ==
    /\ call.op = "none"
    /\ LET r == Subvolume_new(vol, bounds) IN
        /\ ret' = Some(r)
        /\ view' = IF r.tag = "Ok" THEN Some([bounds |-> r.bounds]) ELSE None
    /\ call' = [op |-> "new", bounds |-> bounds]
    /\ prev' = vol
    /\ UNCHANGED <<vol, other, nops, iterVars>>

\* view.resize(bounds), on the view Subvolume::new returned
SubResize(bounds) ==
    /\ call.op = "new" /\ view # None
    /\ LET r == Subvolume_resize(Unwrap(view), vol, bounds) IN
        /\ ret' = Some(r)
        /\ view' = IF r.tag = "Ok" THEN Some([bounds |-> r.bounds]) ELSE None
    /\ call' = [op |-> "resize", bounds |-> bounds, self |-> Unwrap(view)]
    /\ prev' = vol
    /\ UNCHANGED <<vol, other, nops, iterVars>>

\* view.get(idx)
SubGet(idx) ==
    /\ call.op \in {"new", "resize"} /\ view # None
    /\ ret' = Some(Subvolume_get(Unwrap(view), vol, idx))
    /\ call' = [op |-> "get", idx |-> idx]
    /\ prev' = vol
    /\ nops' = nops + 1
    /\ UNCHANGED <<vol, other, view, iterVars>>

\* view.set(idx, item)
SubSet(idx, item) ==
    /\ call.op \in {"new", "resize"} /\ view # None
    /\ LET r == Subvolume_set(Unwrap(view), vol, idx, item) IN
        ret' = Some(r.ret) /\ vol' = r.vol
    /\ call' = [op |-> "set", idx |-> idx, item |-> item]
    /\ prev' = vol
    /\ nops' = nops + 1
    /\ UNCHANGED <<other, view, iterVars>>

NextSub ==
    \/ \E b \in SubBounds : SubNew(b)
    \/ \E b \in SubBounds : SubResize(b)
    \/ \E p \in Pos : SubGet(p)
    \/ \E p \in Pos, item \in Items : SubSet(p, item)

SpecSub == InitSub /\ [][NextSub]_vars

\* ------------------------------------------------------------------------
\* SpecEq : two heap volumes, one of them written once, compared
\* ------------------------------------------------------------------------
InitEq ==
    /\ \E r \in VolRegions :
        /\ vol = HeapVolume_new(FillItem, r)
        /\ \E item \in Items, r2 \in {r, RegionAt(0, <<1, 1, 1>>)} :
            other = HeapVolume_new(item, r2)
    /\ prev = vol
    /\ nops = 0
    /\ IdleBox
    /\ IdleIter
    /\ IdleSub

\* vol.ws_swap(idx, item)
EqWsSwap(idx, item) ==
    /\ call.op = "none"
    /\ call' = [op |-> "ws_swap", idx |-> idx, item |-> item]
    /\ LET r == HeapVolume_ws_swap(vol, idx, item) IN
        ret' = Some(r.ret) /\ vol' = r.vol
    /\ prev' = vol
    /\ nops' = nops + 1
    /\ UNCHANGED <<other, iterVars, subVars>>

\* vol == other
Eq ==
    /\ call.op \in {"none", "ws_swap"}
    /\ call' = [op |-> "eq"]
    /\ ret' = Some(HeapVolume_eq(vol, other))
    /\ prev' = vol
    /\ UNCHANGED <<vol, other, nops, iterVars, subVars>>

NextEq ==
    \/ \E p \in Pos, item \in Items : EqWsSwap(Index(p), item)
    \/ Eq

SpecEq == InitEq /\ [][NextEq]_vars

\* ------------------------------------------------------------------------
\* SpecCast : the index conversions, each applied to a drawn triplet
\* ------------------------------------------------------------------------
InitCast ==
    /\ \E T \in CastTypes, arr \in CastValues \X CastValues \X CastValues :
        \/ call = [op |-> "cast_ivec3", T |-> T, arr |-> arr]
        \/ call = [op |-> "unpack", T |-> T, arr |-> arr]
    /\ ret = None
    /\ IdleIter
    /\ IdleVol
    /\ IdleSub

\* util::cast_ivec3::<T, _>(arr)
CallCast ==
    /\ call.op = "cast_ivec3" /\ ret = None
    /\ ret' = Some(cast_ivec3(call.T, call.arr))
    /\ UNCHANGED <<call, iterVars, volVars, subVars>>

\* arr.unpack::<T>()
CallUnpack ==
    /\ call.op = "unpack" /\ ret = None
    /\ ret' = Some(VolumeIdx_unpack(call.T, Index(call.arr)))
    /\ UNCHANGED <<call, iterVars, volVars, subVars>>

NextCast == CallCast \/ CallUnpack

SpecCast == InitCast /\ [][NextCast]_vars

\* ========================================================================
\* Claims
\* ========================================================================

\* C1: on a HeapVolume, whatever its region, get(idx) with a plain index
\* returns Some exactly when bounding_box().contains(idx), and None otherwise.
C1_GetIffContains ==
    (Returned("get") /\ vol.kind = "HeapVolume") =>
        (IsSome(Unwrap(ret)) <=> BoundingBox_contains(bounding_box(vol), call.idx))

\* C2: for an index contained in the region of a volume, swap(idx, v) returns
\* Some(old), old being what get(idx) returned just before, and get(idx) then
\* returns Some(v).
C2_SwapRoundTrip ==
    (Returned("swap") /\ BoundingBox_contains(bounding_box(prev), call.idx)) =>
        /\ IsSome(Unwrap(ret))
        /\ Unwrap(ret) = call.before
        /\ Volume_get(vol, call.idx) = Some(call.item)

\* the element of a volume at a position p of its region: the slot of p
\* taken relative to the minimum corner of the region
StoredAt(v, p) ==
    LET m == bounding_box(v).min IN
    v.inner[p[1] - m[1] + 1][p[2] - m[2] + 1][p[3] - m[3] + 1]

\* C8: iter() on a HeapVolume yields capacity() elements, the k-th being the
\* element at the k-th position of iter_indices(); the lookup of a position
\* the index iterator produced never fails.
C8_IterYieldsElements ==
    (call.op = "iter" /\ vol.kind = "HeapVolume") =>
        LET b == bounding_box(vol) IN
        \A k \in 1..Len(outs) :
            outs[k] = IF k <= capacity(b) THEN Some(StoredAt(vol, NthPosition(b, k))) ELSE None

\* p lies in [min, max) of b on every axis
InRegion(b, p) == \A i \in Axes : b.min[i] <= p[i] /\ p[i] < b.max[i]

\* the positions of a box
RegionPositions(b) ==
    {p \in (b.min[1]..(b.max[1] - 1)) \X (b.min[2]..(b.max[2] - 1)) \X (b.min[3]..(b.max[3] - 1)) : TRUE}

\* the destination positions at + p of the call made
Destinations == {sum_ivec3(call.at, p) : p \in RegionPositions(bounding_box(other))}

Escapes == \E q \in Destinations : ~InRegion(bounding_box(prev), q)

\* C3: insert is all-or-nothing: when some destination position at + p lies
\* outside the region of the target, insert returns VolumeEscapesBounds and
\* the target is as it was before the call.
C3_InsertAllOrNothing ==
    (Returned("insert") /\ Escapes) =>
        /\ Unwrap(ret) = "VolumeEscapesBounds"
        /\ vol = prev

C3_Witness ==
    /\ Returned("insert")
    /\ Escapes
    /\ \E q \in Destinations : InRegion(bounding_box(prev), q)
    /\ Unwrap(ret) = "VolumeEscapesBounds"

\* the copy made: the target holds the element of other at every destination
\* inside its region and its previous element everywhere else
CopiedInside ==
    /\ bounding_box(vol) = bounding_box(prev)
    /\ \A p \in RegionPositions(bounding_box(other)) :
        InRegion(bounding_box(prev), sum_ivec3(call.at, p)) =>
            StoredAt(vol, sum_ivec3(call.at, p)) = StoredAt(other, p)
    /\ \A q \in RegionPositions(bounding_box(prev)) :
        q \notin Destinations => StoredAt(vol, q) = StoredAt(prev, q)

\* C4: when other has positions and every destination position lies inside
\* the region of the target (a footprint flush against its maximum faces
\* included), insert succeeds, the target then holds other's element at every
\* destination and its previous element everywhere else.
C4_InsertSucceeds ==
    (Returned("insert") /\ Destinations # {} /\ ~Escapes) =>
        /\ Unwrap(ret) = "Ok"
        /\ CopiedInside

\* C5: insert_anyways never fails; afterwards every destination inside the
\* region of the target holds other's element, the destinations outside it
\* were skipped and every other position of the target is unchanged.
C5_InsertAnywaysCopies ==
    Returned("insert_anyways") =>
        /\ Unwrap(ret) = "Ok"
        /\ CopiedInside

\* C6: iterating a box b yields exactly b.capacity() positions, none of them
\* twice and each of them contained in b; a box with an empty axis yields
\* nothing.
C6_IterYieldsCapacity ==
    LET b == bbit.bounding_box
        y == Yielded(outs)
    IN /\ \A k \in 1..Len(y) : BoundingBox_contains(b, Index(y[k]))
       /\ \A j, k \in 1..Len(y) : j # k => y[j] # y[k]
       /\ Exhausted(outs) => Len(y) = capacity(b)
       /\ Degenerate(b) => y = <<>>

\* C7: the successive next() calls return the positions of the box in nested
\* order, X fastest and Z slowest, starting at min, and None from the call
\* after the last position on; this is so every time the box is iterated.
C7_IterOrder ==
    LET b == bbit.bounding_box IN
    \A k \in 1..Len(outs) :
        outs[k] = IF k <= capacity(b) THEN Some(NthPosition(b, k)) ELSE None

\* C9: b.contains(p) is true exactly when p converts to i64 and lies in
\* [min, max) on every axis; so b.contains(b.max()) is false and
\* b.contains(b.min()) is true exactly when no axis of b is empty.
C9_ContainsHalfOpen ==
    Returned("contains") =>
        LET b == call.self
            p == call.idx
            r == Unwrap(ret)
        IN /\ r = (~p.over /\ \A i \in Axes : b.min[i] <= p.arr[i] /\ p.arr[i] < b.max[i])
           /\ (p = Index(b.max) => r = FALSE)
           /\ (p = Index(b.min) => r = ~Degenerate(b))

C9_Witness ==
    /\ Returned("contains")
    /\ call.idx = Index(call.self.min)
    /\ Unwrap(ret) = TRUE

InOrder(b) == \A i \in Axes : b.min[i] <= b.max[i]

\* C10: BoundingBox::new(c1, c2) has the componentwise minimum of the corners
\* as min and the componentwise maximum as max, so min <= max on every axis
\* and new(c1, c2) = new(c2, c1); the boxes returned by intersection and by
\* new_origin have min <= max too.
C10_NewCanonical ==
    /\ Returned("new") =>
        LET b == Unwrap(ret) IN
        /\ \A i \in Axes :
            /\ b.min[i] \in {call.pos1[i], call.pos2[i]}
            /\ b.max[i] \in {call.pos1[i], call.pos2[i]}
            /\ b.min[i] <= call.pos1[i] /\ b.min[i] <= call.pos2[i]
            /\ b.max[i] >= call.pos1[i] /\ b.max[i] >= call.pos2[i]
        /\ InOrder(b)
        /\ b = BoundingBox_new(call.pos2, call.pos1)
    /\ (Returned("intersection") /\ IsSome(Unwrap(ret))) => InOrder(Unwrap(Unwrap(ret)))
    /\ (Returned("new_origin") /\ IsSome(Unwrap(ret))) => InOrder(Unwrap(Unwrap(ret)))

C10_Witness ==
    /\ Returned("new")
    /\ call.pos1[1] > call.pos2[1]
    /\ call.pos1[2] < call.pos2[2]

\* some position is contained in both boxes
SharePosition(a, b) ==
    \E p \in Pos : BoundingBox_contains(a, Index(p)) /\ BoundingBox_contains(b, Index(p))

\* C11: for all boxes a and b, degenerate ones included, a.overlaps(b) is
\* true exactly when some position is contained in both, and overlaps is
\* symmetric.
C11_OverlapsIffShared ==
    Returned("overlaps") =>
        /\ Unwrap(ret) = SharePosition(call.self, call.rhs)
        /\ Unwrap(ret) = BoundingBox_overlaps(call.rhs, call.self)

\* C12: a.intersection(b) is None exactly when a.overlaps(b) is false;
\* otherwise it is the box from the componentwise max of the mins to the
\* componentwise min of the maxes, a position is contained in it exactly
\* when it is contained in a and in b, and b.intersection(a) is the same.
C12_IntersectionBox ==
    Returned("intersection") =>
        LET a == call.self
            b == call.rhs
            r == Unwrap(ret)
        IN /\ (r = None) = ~BoundingBox_overlaps(a, b)
           /\ r # None =>
                /\ \A i \in Axes :
                    /\ Unwrap(r).min[i] = max(a.min[i], b.min[i])
                    /\ Unwrap(r).max[i] = min(a.max[i], b.max[i])
                /\ \A p \in Pos :
                    BoundingBox_contains(Unwrap(r), Index(p)) =
                        (BoundingBox_contains(a, Index(p)) /\ BoundingBox_contains(b, Index(p)))
           /\ r = BoundingBox_intersection(b, a)

C12_Witness ==
    /\ Returned("intersection")
    /\ Unwrap(ret) # None
    /\ Unwrap(Unwrap(ret)) # call.self
    /\ Unwrap(Unwrap(ret)) # call.rhs
    /\ capacity(Unwrap(Unwrap(ret))) > 0

\* every position of the box b is a position of the region of the backend v
FullyContained(b, v) == lib_Positions(b) \subseteq lib_Positions(Backend_bounding_box(v))

\* C13: Subvolume::new(vol, bounds), for bounds with at least one position,
\* returns Ok exactly when every position of bounds is a position of the
\* region of vol (bounds equal to the whole region included), and otherwise
\* OversizedBounds carrying bounds and the region of vol.
C13_NewIffContained ==
    (call.op = "new" /\ lib_Positions(call.bounds) # {}) =>
        LET r == Unwrap(ret) IN
        /\ (r.tag = "Ok") = FullyContained(call.bounds, vol)
        /\ r.tag = "Err" =>
            /\ r.provided = call.bounds
            /\ r.expected = Some(Backend_bounding_box(vol))

\* C14: for an index outside the restricting region of a Subvolume, inside
\* the region of the backend or not, get is None and set returns false and
\* leaves every slot of the backend as it was; for an index inside it, get is
\* Some of what the backend's get returns and set does and returns what the
\* backend's set does and returns.
C14_AccessRevalidated ==
    /\ call.op = "get" =>
        Unwrap(ret) = IF call.idx \in lib_Positions(Unwrap(view).bounds)
                      THEN Some(Backend_get(vol, call.idx))
                      ELSE None
    /\ call.op = "set" =>
        IF call.idx \in lib_Positions(Unwrap(view).bounds)
        THEN /\ Unwrap(ret) = Backend_set(prev, call.idx, call.item).ret
             /\ vol = Backend_set(prev, call.idx, call.item).vol
        ELSE /\ Unwrap(ret) = FALSE
             /\ vol = prev

C14_Witness ==
    /\ call.op = "set"
    /\ call.item # FillItem
    /\ call.idx \notin lib_Positions(Unwrap(view).bounds)
    /\ call.idx \in lib_Positions(Backend_bounding_box(vol))
    /\ Unwrap(ret) = FALSE

\* C15: resize(bounds), for bounds with at least one position, succeeds
\* exactly when every position of bounds is a position of the region of the
\* backend (whatever the previous restricting region was); the view then has
\* bounds as its bounding_box() and the backend is the same, with the same
\* contents; the region of a view always lies within the region of its
\* backend.
C15_ResizeIffContained ==
    /\ (call.op = "resize" /\ lib_Positions(call.bounds) # {}) =>
        LET r == Unwrap(ret) IN
        /\ (r.tag = "Ok") = FullyContained(call.bounds, vol)
        /\ r.tag = "Ok" =>
            /\ Subvolume_bounding_box(Unwrap(view)) = call.bounds
            /\ vol = prev
        /\ r.tag = "Err" =>
            /\ r.provided = call.bounds
            /\ r.expected = Some(Backend_bounding_box(vol))
    /\ view # None => FullyContained(Unwrap(view).bounds, vol)

\* C16: two HeapVolume instances compare equal exactly when their regions
\* are equal and their elements are equal at every position of that region,
\* wherever the region lies.
C16_EqIffSameElements ==
    Returned("eq") =>
        Unwrap(ret) =
            /\ bounding_box(vol) = bounding_box(other)
            /\ \A p \in RegionPositions(bounding_box(vol)) : StoredAt(vol, p) = StoredAt(other, p)

\* C17: converting a triplet to an integer type returns None exactly when
\* some component lies outside the range of that type, and otherwise the three
\* components with their values unchanged: no truncation, no wraparound.
C17_CastChecked ==
    (Returned("cast_ivec3") \/ Returned("unpack")) =>
        Unwrap(ret) = IF \E i \in Axes : ~InDomain(call.T, call.arr[i])
                      THEN None
                      ELSE Some(call.arr)

C17_Witness ==
    /\ Returned("cast_ivec3")
    /\ call.T = "u8"
    /\ call.arr = <<400, 60, 0>>
    /\ Unwrap(ret) = None

\* ------------------------------------------------------------------------
\* SpecSpace : one access of a heap volume through a Space index
\* ------------------------------------------------------------------------
\* storage-local triplets: below zero, inside and beyond every span
LocalPos == (MinCoord..MaxSpan) \X (MinCoord..MaxSpan) \X (MinCoord..MaxSpan)

SpaceIdx == {Worldspace(Index(p)) : p \in Pos} \cup {Localspace(Index(q)) : q \in LocalPos}

InitSpace ==
    /\ \E r \in VolRegions : vol = HeapVolume_new(FillItem, r)
    /\ other = EmptyVolume
    /\ prev = vol
    /\ nops = 0
    /\ IdleBox
    /\ IdleIter
    /\ IdleSub

\* vol.get(Space::...)
SpaceGet(sidx) ==
    /\ call.op = "none"
    /\ call' = [op |-> "get", sidx |-> sidx]
    /\ ret' = Some(HeapVolume_access_space(vol, sidx))
    /\ prev' = vol
    /\ nops' = nops + 1
    /\ UNCHANGED <<vol, other, iterVars, subVars>>

\* vol.get_mut(Space::...)
SpaceGetMut(sidx) ==
    /\ call.op = "none"
    /\ call' = [op |-> "get_mut", sidx |-> sidx]
    /\ ret' = Some(HeapVolume_access_mut_space(vol, sidx))
    /\ prev' = vol
    /\ nops' = nops + 1
    /\ UNCHANGED <<vol, other, iterVars, subVars>>

\* vol.swap(Space::..., item)
SpaceSwap(sidx, item) ==
    /\ call.op = "none"
    /\ call' = [op |-> "swap", sidx |-> sidx, item |-> item]
    /\ LET r == HeapVolume_swap_space(vol, sidx, item) IN
        ret' = Some(r.ret) /\ vol' = r.vol
    /\ prev' = vol
    /\ nops' = nops + 1
    /\ UNCHANGED <<other, iterVars, subVars>>

\* vol.ws_get(idx)
SpaceWsGet(idx) ==
    /\ call.op = "none"
    /\ call' = [op |-> "ws_get", sidx |-> Worldspace(idx)]
    /\ ret' = Some(HeapVolume_ws_get(vol, idx))
    /\ prev' = vol
    /\ nops' = nops + 1
    /\ UNCHANGED <<vol, other, iterVars, subVars>>

\* vol.ws_get_mut(idx)
SpaceWsGetMut(idx) ==
    /\ call.op = "none"
    /\ call' = [op |-> "ws_get_mut", sidx |-> Worldspace(idx)]
    /\ ret' = Some(HeapVolume_ws_get_mut(vol, idx))
    /\ prev' = vol
    /\ nops' = nops + 1
    /\ UNCHANGED <<vol, other, iterVars, subVars>>

\* vol.ws_swap(idx, item)
SpaceWsSwap(idx, item) ==
    /\ call.op = "none"
    /\ call' = [op |-> "ws_swap", sidx |-> Worldspace(idx), item |-> item]
    /\ LET r == HeapVolume_ws_swap(vol, idx, item) IN
        ret' = Some(r.ret) /\ vol' = r.vol
    /\ prev' = vol
    /\ nops' = nops + 1
    /\ UNCHANGED <<other, iterVars, subVars>>

NextSpace ==
    \/ \E sidx \in SpaceIdx : SpaceGet(sidx)
    \/ \E sidx \in SpaceIdx : SpaceGetMut(sidx)
    \/ \E sidx \in SpaceIdx, item \in Items : SpaceSwap(sidx, item)
    \/ \E p \in Pos : SpaceWsGet(Index(p))
    \/ \E p \in Pos : SpaceWsGetMut(Index(p))
    \/ \E p \in Pos, item \in Items : SpaceWsSwap(Index(p), item)

SpecSpace == InitSpace /\ [][NextSpace]_vars

\* the storage of v with the element at the local slot q replaced by item
WithSlot(v, q, item) == [v EXCEPT !.inner[q[1] + 1][q[2] + 1][q[3] + 1] = item]

\* what an access of the kind made returns, and leaves, when it reaches the
\* local slot q of the volume v
AtSlot(v, q) ==
    LET e == v.inner[q[1] + 1][q[2] + 1][q[3] + 1] IN
    CASE call.op \in {"get", "ws_get"} -> [ret |-> Some(e), vol |-> v]
      [] call.op \in {"get_mut", "ws_get_mut"} -> [ret |-> Some(q), vol |-> v]
      [] call.op \in {"swap", "ws_swap"} -> [ret |-> Some(e), vol |-> WithSlot(v, q, call.item)]

SpaceOps == {"get", "get_mut", "swap", "ws_get", "ws_get_mut", "ws_swap"}

\* C18: on a HeapVolume an access at Space::Worldspace(p), and ws_get,
\* ws_get_mut and ws_swap at p, reach the slot that Space::Localspace(p - min)
\* reaches, min being the minimum corner of the region; they return Some
\* exactly when the region contains p, and Space::Localspace(q) returns Some
\* exactly when 0 <= q[i] < span[i] on every axis. A failed access changes
\* nothing.
C18_WorldspaceIsShiftedLocalspace ==
    (call.op \in SpaceOps /\ IsSome(ret) /\ call.sidx.space \in {"Worldspace", "Localspace"}) =>
        LET b == prev.bounds
            p == call.sidx.idx.arr
            q == IF call.sidx.space = "Worldspace" THEN sub_ivec3(p, b.min) ELSE p
            hit == IF call.sidx.space = "Worldspace"
                   THEN \A i \in Axes : b.min[i] <= p[i] /\ p[i] < b.max[i]
                   ELSE \A i \in Axes : 0 <= p[i] /\ p[i] < b.max[i] - b.min[i]
        IN /\ IsSome(Unwrap(ret)) <=> hit
           /\ hit => Unwrap(ret) = AtSlot(prev, q).ret /\ vol = AtSlot(prev, q).vol
           /\ ~hit => vol = prev

\* a write through a world position of a region that does not start at the
\* origin
C18_Witness ==
    /\ call.op = "ws_swap"
    /\ prev.bounds.min # <<0, 0, 0>>
    /\ IsSome(ret) /\ IsSome(Unwrap(ret))
    /\ vol # prev
    /\ vol = WithSlot(prev, sub_ivec3(call.sidx.idx.arr, prev.bounds.min), call.item)

\* ------------------------------------------------------------------------
\* i64 and i128 : integers of any size, as a sign and a magnitude of limbs
\* (least significant first, no leading zero limb), so that the limits of
\* the two types and the products beyond them are values of the model
\* ------------------------------------------------------------------------
LimbBase == 2^8

RECURSIVE Trim(_)
Trim(m) == IF m # <<>> /\ m[Len(m)] = 0 THEN Trim(SubSeq(m, 1, Len(m) - 1)) ELSE m

RECURSIVE MagOf(_)
MagOf(n) == IF n = 0 THEN <<>> ELSE <<n % LimbBase>> \o MagOf(n \div LimbBase)

RECURSIVE MagAdd(_, _, _)
MagAdd(a, b, carry) ==
    IF a = <<>> /\ b = <<>> THEN (IF carry = 0 THEN <<>> ELSE <<carry>>)
    ELSE LET x == IF a = <<>> THEN 0 ELSE Head(a)
             y == IF b = <<>> THEN 0 ELSE Head(b)
             s == x + y + carry
         IN <<s % LimbBase>> \o MagAdd(IF a = <<>> THEN a ELSE Tail(a),
                                       IF b = <<>> THEN b ELSE Tail(b),
                                       s \div LimbBase)

\* a - b - borrow, for a >= b
RECURSIVE MagSub(_, _, _)
MagSub(a, b, borrow) ==
    IF a = <<>> THEN <<>>
    ELSE LET y == IF b = <<>> THEN 0 ELSE Head(b)
             s == Head(a) - y - borrow
         IN <<s % LimbBase>> \o MagSub(Tail(a), IF b = <<>> THEN b ELSE Tail(b),
                                       IF s < 0 THEN 1 ELSE 0)

RECURSIVE MagLt(_, _)
MagLt(a, b) ==
    IF Len(a) # Len(b) THEN Len(a) < Len(b)
    ELSE IF a = <<>> THEN FALSE
    ELSE LET n == Len(a) IN
         IF a[n] # b[n] THEN a[n] < b[n]
         ELSE MagLt(SubSeq(a, 1, n - 1), SubSeq(b, 1, n - 1))

RECURSIVE MagMulLimb(_, _, _)
MagMulLimb(a, d, carry) ==
    IF a = <<>> THEN (IF carry = 0 THEN <<>> ELSE <<carry>>)
    ELSE LET s == Head(a) * d + carry
         IN <<s % LimbBase>> \o MagMulLimb(Tail(a), d, s \div LimbBase)

RECURSIVE MagMul(_, _)
MagMul(a, b) ==
    IF a = <<>> \/ b = <<>> THEN <<>>
    ELSE Trim(MagAdd(MagMulLimb(a, Head(b), 0), <<0>> \o MagMul(a, Tail(b)), 0))

RECURSIVE MagPow2(_)
MagPow2(k) == IF k < 8 THEN <<2^k>> ELSE <<0>> \o MagPow2(k - 8)

Big(neg, mag) == [neg |-> neg /\ mag # <<>>, mag |-> mag]
BigOf(n) == IF n < 0 THEN Big(TRUE, MagOf(0 - n)) ELSE Big(FALSE, MagOf(n))
BigPow2(k) == Big(FALSE, MagPow2(k))
BigNeg(x) == Big(~x.neg, x.mag)
BigAbs(x) == Big(FALSE, x.mag)

BigAdd(x, y) ==
    IF x.neg = y.neg THEN Big(x.neg, MagAdd(x.mag, y.mag, 0))
    ELSE IF MagLt(x.mag, y.mag) THEN Big(y.neg, Trim(MagSub(y.mag, x.mag, 0)))
    ELSE Big(x.neg, Trim(MagSub(x.mag, y.mag, 0)))

BigSub(x, y) == BigAdd(x, BigNeg(y))
BigMul(x, y) == Big(x.neg # y.neg, MagMul(x.mag, y.mag))

BigLe(x, y) ==
    IF x.neg # y.neg THEN x.neg
    ELSE IF x.neg THEN ~MagLt(x.mag, y.mag)
    ELSE ~MagLt(y.mag, x.mag)

\* the limits of a signed type of the given number of bits
TypeMin(bits) == BigNeg(BigPow2(bits - 1))
TypeMax(bits) == BigSub(BigPow2(bits - 1), BigOf(1))
Fits(bits, x) == BigLe(TypeMin(bits), x) /\ BigLe(x, TypeMax(bits))

\* two's complement: the value of the type congruent to x modulo 2^bits
Wrap(bits, x) ==
    LET bytes == bits \div 8
        low == Big(FALSE, Trim(SubSeq(x.mag, 1, min(Len(x.mag), bytes))))
        u == IF x.neg /\ low.mag # <<>> THEN BigSub(BigPow2(bits), low) ELSE low
    IN IF BigLe(u, TypeMax(bits)) THEN u ELSE BigSub(u, BigPow2(bits))

\* An arithmetic operation whose exact result is x, in a signed type of the
\* given number of bits: a build with overflow checks (debug) panics when x
\* does not fit, a build without them (release) wraps.
Panic == [panic |-> TRUE]
Panicked(x) == "panic" \in DOMAIN x
Builds == {"debug", "release"}
Arith(build, bits, x) ==
    IF Fits(bits, x) THEN x
    ELSE IF build = "debug" THEN Panic
    ELSE Wrap(bits, x)

i64_sub(build, a, b) == Arith(build, 64, BigSub(a, b))
i64_abs(build, a) == Arith(build, 64, BigAbs(a))
i128_mul(build, a, b) == Arith(build, 128, BigMul(a, b))

\* ------------------------------------------------------------------------
\* types.rs : the spans and the capacity of a BoundingBox, with the width of
\* i64 and i128 kept (corners anywhere in i64)
\* ------------------------------------------------------------------------
\* i64::abs(self.max[i] - self.min[i])
span_i64(build, b, i) ==
    LET d == i64_sub(build, b.max[i], b.min[i]) IN
    IF Panicked(d) THEN Panic ELSE i64_abs(build, d)

x_span_i64(build, b) == span_i64(build, b, 1)
y_span_i64(build, b) == span_i64(build, b, 2)
z_span_i64(build, b) == span_i64(build, b, 3)

dimensions_i64(build, b) ==
    LET d == <<x_span_i64(build, b), y_span_i64(build, b), z_span_i64(build, b)>> IN
    IF \E i \in Axes : Panicked(d[i]) THEN Panic ELSE [arr |-> d]

\* util::sub_ivec3 on [i64; 3]
sub_ivec3_i64(build, lhs, rhs) ==
    LET d == <<i64_sub(build, lhs[1], rhs[1]), i64_sub(build, lhs[2], rhs[2]),
               i64_sub(build, lhs[3], rhs[3])>> IN
    IF \E i \in Axes : Panicked(d[i]) THEN Panic ELSE [arr |-> d]

\* (x as i128) * (y as i128) * (z as i128)
capacity_i128(build, b) ==
    LET d == sub_ivec3_i64(build, b.max, b.min) IN
    IF Panicked(d) THEN Panic
    ELSE LET xy == i128_mul(build, d.arr[1], d.arr[2]) IN
         IF Panicked(xy) THEN Panic ELSE i128_mul(build, xy, d.arr[3])

BigMin(x, y) == IF BigLe(x, y) THEN x ELSE y
BigMax(x, y) == IF BigLe(x, y) THEN y ELSE x

\* BoundingBox::new on [i64; 3] corners
BoundingBox_new_i64(pos1, pos2) ==
    [min |-> [i \in Axes |-> BigMin(pos1[i], pos2[i])],
     max |-> [i \in Axes |-> BigMax(pos1[i], pos2[i])]]

\* ------------------------------------------------------------------------
\* SpecSpan : the spans, the dimensions and the capacity of a box whose
\* corners are drawn from the whole of i64, in either build
\* ------------------------------------------------------------------------
\* corner components: the limits of i64, values around zero, and the powers
\* of two at which a cube's capacity still fits i128 (2^21) and no longer
\* does (2^43)
I64Values == {TypeMin(64), BigOf(0 - 1), BigOf(0), BigPow2(21), BigPow2(43), TypeMax(64)}
I64Pos == {<<x, y, z>> : x \in I64Values, y \in I64Values, z \in I64Values}
I64Boxes == {BoundingBox_new_i64(c1, <<m, m, m>>) : c1 \in I64Pos, m \in I64Values}

InitSpan ==
    /\ \E b \in I64Boxes, build \in Builds :
        \/ call = [op |-> "x_span", self |-> b, build |-> build]
        \/ call = [op |-> "y_span", self |-> b, build |-> build]
        \/ call = [op |-> "z_span", self |-> b, build |-> build]
        \/ call = [op |-> "dimensions", self |-> b, build |-> build]
        \/ call = [op |-> "capacity", self |-> b, build |-> build]
    /\ ret = None
    /\ IdleIter
    /\ IdleVol
    /\ IdleSub

CallXSpan ==
    /\ call.op = "x_span" /\ ret = None
    /\ ret' = Some(x_span_i64(call.build, call.self))
    /\ UNCHANGED <<call, iterVars, volVars, subVars>>

CallYSpan ==
    /\ call.op = "y_span" /\ ret = None
    /\ ret' = Some(y_span_i64(call.build, call.self))
    /\ UNCHANGED <<call, iterVars, volVars, subVars>>

CallZSpan ==
    /\ call.op = "z_span" /\ ret = None
    /\ ret' = Some(z_span_i64(call.build, call.self))
    /\ UNCHANGED <<call, iterVars, volVars, subVars>>

CallDimensions ==
    /\ call.op = "dimensions" /\ ret = None
    /\ ret' = Some(dimensions_i64(call.build, call.self))
    /\ UNCHANGED <<call, iterVars, volVars, subVars>>

CallCapacity ==
    /\ call.op = "capacity" /\ ret = None
    /\ ret' = Some(capacity_i128(call.build, call.self))
    /\ UNCHANGED <<call, iterVars, volVars, subVars>>

NextSpan ==
    \/ CallXSpan
    \/ CallYSpan
    \/ CallZSpan
    \/ CallDimensions
    \/ CallCapacity

SpecSpan == InitSpan /\ [][NextSpan]_vars

\* max[i] - min[i] and the product of the three, as integers
ExactSpan(b, i) == BigSub(b.max[i], b.min[i])
ExactCapacity(b) == BigMul(BigMul(ExactSpan(b, 1), ExactSpan(b, 2)), ExactSpan(b, 3))

\* C19: for every box with i64 corners x_span, y_span and z_span return
\* max[i] - min[i], which is not negative, dimensions returns the three of
\* them, and capacity returns the exact product of the three spans: no step
\* overflows, panics or wraps.
C19_SpansAndCapacityExact ==
    /\ \A i \in Axes :
        Returned(<<"x_span", "y_span", "z_span">>[i]) =>
            /\ ~Panicked(Unwrap(ret))
            /\ Unwrap(ret) = ExactSpan(call.self, i)
            /\ ~Unwrap(ret).neg
    /\ Returned("dimensions") =>
        /\ ~Panicked(Unwrap(ret))
        /\ \A i \in Axes : Unwrap(ret).arr[i] = ExactSpan(call.self, i)
    /\ Returned("capacity") =>
        /\ ~Panicked(Unwrap(ret))
        /\ Unwrap(ret) = ExactCapacity(call.self)

\* ------------------------------------------------------------------------
\* SpecStack : a StackVolume<X, Y, Z, T> under a sequence of get, get_mut
\* and swap
\* ------------------------------------------------------------------------
InitStack ==
    /\ \E item \in Items : vol = StackVolume_filled(item)
    /\ other = EmptyVolume
    /\ prev = vol
    /\ nops = 0
    /\ IdleBox
    /\ IdleIter
    /\ IdleSub

\* vol.get(idx)
StackGet(idx) ==
    /\ nops <= MaxOps
    /\ call' = [op |-> "get", idx |-> idx]
    /\ ret' = Some(Volume_get(vol, idx))
    /\ prev' = vol
    /\ nops' = nops + 1
    /\ UNCHANGED <<vol, other, iterVars, subVars>>

\* vol.get_mut(idx)
StackGetMut(idx) ==
    /\ nops <= MaxOps
    /\ call' = [op |-> "get_mut", idx |-> idx]
    /\ ret' = Some(Volume_get_mut(vol, idx))
    /\ prev' = vol
    /\ nops' = nops + 1
    /\ UNCHANGED <<vol, other, iterVars, subVars>>

\* vol.swap(idx, item)
StackSwap(idx, item) ==
    /\ nops <= MaxOps
    /\ call' = [op |-> "swap", idx |-> idx, item |-> item]
    /\ LET r == Volume_swap(vol, idx, item) IN
        ret' = Some(r.ret) /\ vol' = r.vol
    /\ prev' = vol
    /\ nops' = nops + 1
    /\ UNCHANGED <<other, iterVars, subVars>>

NextStack ==
    \/ \E idx \in GenIdx : StackGet(idx)
    \/ \E idx \in GenIdx : StackGetMut(idx)
    \/ \E idx \in GenIdx, item \in Items : StackSwap(idx, item)

SpecStack == InitStack /\ [][NextStack]_vars

\* 0 <= idx[0] < X, 0 <= idx[1] < Y and 0 <= idx[2] < Z
InStack(idx) ==
    /\ ~idx.over
    /\ 0 <= idx.arr[1] /\ idx.arr[1] < StackX
    /\ 0 <= idx.arr[2] /\ idx.arr[2] < StackY
    /\ 0 <= idx.arr[3] /\ idx.arr[3] < StackZ

\* C20: a StackVolume<X, Y, Z, T>, after construction and after any sequence
\* of get, get_mut and swap, has the region [0,0,0]..[X,Y,Z] and a storage
\* of X by Y by Z elements; get(idx) is Some exactly when 0 <= idx[0] < X,
\* 0 <= idx[1] < Y and 0 <= idx[2] < Z, which is exactly when contains(idx).
C20_StackVolumeFixedRegion ==
    vol.kind = "StackVolume" =>
        /\ bounding_box(vol) = [min |-> <<0, 0, 0>>, max |-> <<StackX, StackY, StackZ>>]
        /\ Len(vol.inner) = StackX
        /\ \A x \in 1..StackX :
            /\ Len(vol.inner[x]) = StackY
            /\ \A y \in 1..StackY : Len(vol.inner[x][y]) = StackZ
        /\ Returned("get") =>
            /\ IsSome(Unwrap(ret)) <=> InStack(call.idx)
            /\ IsSome(Unwrap(ret)) <=> Volume_contains(vol, call.idx)

\* a get that finds what an earlier swap stored
C20_Witness ==
    /\ vol.kind = "StackVolume"
    /\ Returned("get")
    /\ nops > 1
    /\ InStack(call.idx)
    /\ \E item \in Items :
        /\ Unwrap(ret) = Some(item)
        /\ vol # StackVolume_filled(item)

\* ------------------------------------------------------------------------
\* SpecFrame : one swap or get_mut on a heap or stack volume some slot of
\* which may have been written before
\* ------------------------------------------------------------------------
\* the volume v after OtherItem was stored in its first slot, if it has one
Written(v) ==
    IF capacity(bounding_box(v)) = 0 THEN v
    ELSE [v EXCEPT !.inner[1][1][1] = OtherItem]

InitFrame ==
    /\ \E fresh \in {StackVolume_filled(FillItem)}
                    \cup {HeapVolume_new(FillItem, r) : r \in VolRegions} :
        vol \in {fresh, Written(fresh)}
    /\ other = EmptyVolume
    /\ prev = vol
    /\ nops = 0
    /\ IdleBox
    /\ IdleIter
    /\ IdleSub

\* vol.swap(idx, item), idx a plain index
FrameSwap(idx, item) ==
    /\ call.op = "none"
    /\ call' = [op |-> "swap", idx |-> idx, item |-> item]
    /\ LET r == Volume_swap(vol, idx, item) IN
        ret' = Some(r.ret) /\ vol' = r.vol
    /\ prev' = vol
    /\ nops' = nops + 1
    /\ UNCHANGED <<other, iterVars, subVars>>

\* vol.get_mut(idx), idx a plain index
FrameGetMut(idx) ==
    /\ call.op = "none"
    /\ call' = [op |-> "get_mut", idx |-> idx]
    /\ ret' = Some(Volume_get_mut(vol, idx))
    /\ prev' = vol
    /\ nops' = nops + 1
    /\ UNCHANGED <<vol, other, iterVars, subVars>>

\* vol.swap(Space::..., item) on a HeapVolume
FrameSwapSpace(sidx, item) ==
    /\ call.op = "none"
    /\ vol.kind = "HeapVolume"
    /\ call' = [op |-> "swap", idx |-> sidx, item |-> item]
    /\ LET r == HeapVolume_swap_space(vol, sidx, item) IN
        ret' = Some(r.ret) /\ vol' = r.vol
    /\ prev' = vol
    /\ nops' = nops + 1
    /\ UNCHANGED <<other, iterVars, subVars>>

\* vol.get_mut(Space::...) on a HeapVolume
FrameGetMutSpace(sidx) ==
    /\ call.op = "none"
    /\ vol.kind = "HeapVolume"
    /\ call' = [op |-> "get_mut", idx |-> sidx]
    /\ ret' = Some(HeapVolume_access_mut_space(vol, sidx))
    /\ prev' = vol
    /\ nops' = nops + 1
    /\ UNCHANGED <<vol, other, iterVars, subVars>>

NextFrame ==
    \/ \E idx \in GenIdx, item \in Items : FrameSwap(idx, item)
    \/ \E idx \in GenIdx : FrameGetMut(idx)
    \/ \E sidx \in SpaceIdx, item \in Items : FrameSwapSpace(sidx, item)
    \/ \E sidx \in SpaceIdx : FrameGetMutSpace(sidx)

SpecFrame == InitFrame /\ [][NextFrame]_vars

\* the position an index of the call names: a plain index and Worldspace
\* name a position of space, Localspace one relative to the region's minimum
Addressed(v, idx) ==
    IF "space" \notin DOMAIN idx THEN idx.arr
    ELSE IF idx.space = "Worldspace" THEN idx.idx.arr
    ELSE sum_ivec3(idx.idx.arr, bounding_box(v).min)

\* v and w have the same region and hold the same elements everywhere but,
\* possibly, at the position p
SameBut(v, w, p) ==
    /\ bounding_box(v) = bounding_box(w)
    /\ \A q \in RegionPositions(bounding_box(v)) :
        q # p => StoredAt(v, q) = StoredAt(w, q)

\* C21: a swap that returns Some changes only the slot at the position its
\* index names, every other slot and the bounding box being as before; a swap
\* or get_mut that returns None changes no slot and not the bounding box.
C21_SwapFrame ==
    (call.op \in {"swap", "get_mut"} /\ ret # None) =>
        /\ bounding_box(vol) = bounding_box(prev)
        /\ ~IsSome(Unwrap(ret)) => vol = prev
        /\ (call.op = "swap" /\ IsSome(Unwrap(ret))) =>
            SameBut(vol, prev, Addressed(prev, call.idx))

\* ------------------------------------------------------------------------
\* lib.rs : trait Volume, the default methods apply, idx_apply and fill
\* ------------------------------------------------------------------------
\* self is the backend v itself (sub = None) or the Subvolume Unwrap(sub)
\* borrowing v
lib_bounding_box(sub, v) ==
    IF sub = None THEN Backend_bounding_box(v) ELSE Subvolume_bounding_box(Unwrap(sub))

lib_get(sub, v, idx) ==
    IF sub = None THEN Backend_get(v, idx) ELSE Subvolume_get(Unwrap(sub), v, idx)

lib_set(sub, v, idx, item) ==
    IF sub = None THEN Backend_set(v, idx, item) ELSE Subvolume_set(Unwrap(sub), v, idx, item)

\* (min.z..max.z).map(move |z| na::vector![x, y, z])
lib_iterator_z(x, y, mn, mx) == [i \in 1..(mx[3] - mn[3]) |-> <<x, y, mn[3] + i - 1>>]

\* (min.y..max.y).flat_map(move |y| ...), from y on
RECURSIVE lib_iterator_y(_, _, _, _)
lib_iterator_y(x, y, mn, mx) ==
    IF y >= mx[2] THEN <<>>
    ELSE lib_iterator_z(x, y, mn, mx) \o lib_iterator_y(x, y + 1, mn, mx)

\* (min.x..max.x).flat_map(|x| ...), from x on
RECURSIVE lib_iterator_x(_, _, _)
lib_iterator_x(x, mn, mx) ==
    IF x >= mx[1] THEN <<>>
    ELSE lib_iterator_y(x, mn[2], mn, mx) \o lib_iterator_x(x + 1, mn, mx)

\* a plausible slip: the ranges written min..=max
lib_iterator_inclusive(mn, mx) == lib_iterator_x(mn[1], mn, sum_ivec3(mx, <<1, 1, 1>>))

\* the positions the loops of apply and idx_apply run over, in order
lib_iterator(mn, mx) == lib_iterator_x(mn[1], mn, mx)

\* The closures passed: what f returns for the position idx and, in apply,
\* for the item held there (held = None where the position holds none):
\*   "never"   |_| None
\*   "always"  |_| Some(item)
\*   "plane"   |idx| (idx.x == 0).then_some(item)
\*   "fresh"   |_, held| (held == Some(FillItem)).then_some(item)
Closure_call(f, idx, held) ==
    CASE f.kind = "never" -> None
      [] f.kind = "always" -> Some(f.item)
      [] f.kind = "plane" -> IF idx[1] = 0 THEN Some(f.item) ELSE None
      [] f.kind = "fresh" -> IF held = Some(FillItem) THEN Some(f.item) ELSE None

IdxClosures == {[kind |-> k, item |-> i] : k \in {"never", "always", "plane"}, i \in Items}
Closures == IdxClosures \cup {[kind |-> "fresh", item |-> i] : i \in Items}

\* the item inside the Output of self: Option<Item> for the backend,
\* Option<Option<Item>> for a Subvolume
lib_held(sub, output) ==
    IF sub = None THEN output
    ELSE IF IsSome(output) THEN Unwrap(output) ELSE None

\* for idx in iterator { ... }, its first k rounds: the backend afterwards,
\* the calls of f and the calls of set made, in order.  with_get is TRUE in
\* apply, where f is given self.get(idx).
RECURSIVE lib_for(_, _, _, _, _, _)
lib_for(sub, v, f, with_get, its, k) ==
    IF k = 0 THEN [fcalls |-> <<>>, sets |-> <<>>, vol |-> v]
    ELSE LET s == lib_for(sub, v, f, with_get, its, k - 1)
             idx == its[k]
             input == IF with_get THEN Some(lib_get(sub, s.vol, idx)) ELSE None
             held == IF with_get THEN lib_held(sub, Unwrap(input)) ELSE None
             output == Closure_call(f, idx, held)
         IN [fcalls |-> Append(s.fcalls, [idx |-> idx, input |-> input]),
             sets |-> IF IsSome(output)
                      THEN Append(s.sets, [idx |-> idx, item |-> Unwrap(output)])
                      ELSE s.sets,
             vol |-> IF IsSome(output) THEN lib_set(sub, s.vol, idx, Unwrap(output)).vol
                     ELSE s.vol]

\* Volume::apply
lib_Volume_apply(sub, v, f) ==
    LET mn == lib_BoundingBox_min(lib_bounding_box(sub, v))
        mx == lib_BoundingBox_max(lib_bounding_box(sub, v))
        its == lib_iterator(mn, mx)
    IN lib_for(sub, v, f, TRUE, its, Len(its))

\* Volume::idx_apply
lib_Volume_idx_apply(sub, v, f) ==
    LET mn == lib_BoundingBox_min(lib_bounding_box(sub, v))
        mx == lib_BoundingBox_max(lib_bounding_box(sub, v))
        its == lib_iterator(mn, mx)
    IN lib_for(sub, v, f, FALSE, its, Len(its))

\* Volume::fill
lib_Volume_fill(sub, v, item) ==
    lib_Volume_idx_apply(sub, v, [kind |-> "always", item |-> item])

\* ------------------------------------------------------------------------
\* SpecApply : apply, idx_apply or fill, called once on a backend or on a
\* Subvolume of it
\* ------------------------------------------------------------------------
\* the backend v after OtherItem was set at the minimum corner of its region
Backend_written(v) ==
    Backend_set(v, lib_BoundingBox_min(Backend_bounding_box(v)), OtherItem).vol

\* Regions of the backends: up to MaxSpan + 1 positions long and one or two
\* wide and high, anchored at the origin and below it, so that a restricting
\* region of several positions fits inside with backend slots left around it.
ApplyRegions ==
    {lib_BoundingBox(<<m, m, m>>, <<m + s[1], m + s[2], m + s[3]>>) :
        m \in {MinCoord, 0}, s \in (0..(MaxSpan + 1)) \X (1..2) \X (1..2)}

InitApply ==
    /\ \E r \in ApplyRegions :
        vol \in {Backend_new(FillItem, r), Backend_written(Backend_new(FillItem, r))}
    /\ \/ view = None
       \/ \E b \in SubBounds :
            /\ Subvolume_new(vol, b).tag = "Ok"
            /\ view = Some([bounds |-> b])
    /\ \/ \E f \in Closures : call = [op |-> "apply", f |-> f]
       \/ \E f \in IdxClosures : call = [op |-> "idx_apply", f |-> f]
       \/ \E item \in Items : call = [op |-> "fill", f |-> [kind |-> "always", item |-> item]]
    /\ ret = None
    /\ other = EmptyVolume
    /\ prev = vol
    /\ nops = 0
    /\ IdleIter

\* self.apply(f)
CallApply ==
    /\ call.op = "apply" /\ ret = None
    /\ LET r == lib_Volume_apply(view, vol, call.f) IN
        /\ ret' = Some([fcalls |-> r.fcalls, sets |-> r.sets])
        /\ vol' = r.vol
    /\ prev' = vol
    /\ nops' = nops + 1
    /\ UNCHANGED <<call, other, iterVars, subVars>>

\* self.idx_apply(f)
CallIdxApply ==
    /\ call.op = "idx_apply" /\ ret = None
    /\ LET r == lib_Volume_idx_apply(view, vol, call.f) IN
        /\ ret' = Some([fcalls |-> r.fcalls, sets |-> r.sets])
        /\ vol' = r.vol
    /\ prev' = vol
    /\ nops' = nops + 1
    /\ UNCHANGED <<call, other, iterVars, subVars>>

\* self.fill(item)
CallFill ==
    /\ call.op = "fill" /\ ret = None
    /\ LET r == lib_Volume_fill(view, vol, call.f.item) IN
        /\ ret' = Some([fcalls |-> r.fcalls, sets |-> r.sets])
        /\ vol' = r.vol
    /\ prev' = vol
    /\ nops' = nops + 1
    /\ UNCHANGED <<call, other, iterVars, subVars>>

NextApply ==
    \/ CallApply
    \/ CallIdxApply
    \/ CallFill

SpecApply == InitApply /\ [][NextApply]_vars

\* how many of the calls logged in s are for the position p
CallsAt(s, p) == Cardinality({k \in 1..Len(s) : s[k].idx = p})

\* what f returns at p, given in apply the item self.get(p) holds before
\* the call
Expected(p) ==
    Closure_call(call.f, p,
                 IF call.op = "apply" THEN lib_held(view, lib_get(view, prev, p)) ELSE None)

\* C22: idx_apply(f) calls f exactly once for every position contained in
\* bounding_box() and for no other, and calls set(idx, v) exactly for the
\* positions where f returned Some(v); apply(f) does the same, f being given
\* get(idx); fill(item) calls set(idx, item) exactly once for every contained
\* position; on a Subvolume no backend slot outside the restricting region is
\* written.
C22_ApplyVisitsContained ==
    (Returned("apply") \/ Returned("idx_apply") \/ Returned("fill")) =>
        LET r == Unwrap(ret)
            bb == lib_bounding_box(view, prev)
            P == lib_Positions(bb)
        IN /\ \A k \in 1..Len(r.fcalls) : lib_BoundingBox_contains(bb, r.fcalls[k].idx)
           /\ \A p \in P : CallsAt(r.fcalls, p) = 1
           /\ call.op = "apply" =>
                \A k \in 1..Len(r.fcalls) :
                    r.fcalls[k].input = Some(lib_get(view, prev, r.fcalls[k].idx))
           /\ \A k \in 1..Len(r.sets) :
                /\ r.sets[k].idx \in P
                /\ Expected(r.sets[k].idx) = Some(r.sets[k].item)
           /\ \A p \in P : CallsAt(r.sets, p) = IF IsSome(Expected(p)) THEN 1 ELSE 0
           /\ call.op = "fill" =>
                \A p \in P : \E k \in 1..Len(r.sets) : r.sets[k] = [idx |-> p, item |-> call.f.item]
           /\ Backend_bounding_box(vol) = Backend_bounding_box(prev)
           /\ \A p \in lib_Positions(Backend_bounding_box(prev)) :
                vol.slots[p] = IF p \in P /\ IsSome(Expected(p))
                               THEN Unwrap(Expected(p))
                               ELSE prev.slots[p]

\* a fill through a Subvolume that is smaller than its backend
C22_Witness ==
    /\ Returned("fill")
    /\ view # None
    /\ vol # prev
    /\ Len(Unwrap(ret).sets) > 1
    /\ \E p \in lib_Positions(Backend_bounding_box(prev)) :
        /\ ~lib_BoundingBox_contains(Unwrap(view).bounds, p)
        /\ prev.slots[p] # call.f.item
        /\ vol.slots[p] = prev.slots[p]

====
